---- MODULE Spec2Model ----
(***************************************************************************)
(* Model of FileHandler (src/src/main.go): one HTTP request is validated, *)
(* a multipart upload is initiated, the body is streamed to the backend   *)
(* one chunk at a time, the upload is completed and the reference is      *)
(* written to the response.  The handler blocks at each backend call, so  *)
(* every backend call is an action that issues it and an action in which  *)
(* the backend answers and the handler runs to its next call.             *)
(***************************************************************************)
EXTENDS Integers, Sequences, FiniteSets, TLC

VARIABLES
    request,        \* r -> the inputs of request r (*http.Request)
    pc,             \* r -> where the handler of request r stands
    upload,         \* r -> multipartUploadOutput (Key, UploadId) or NoUpload
    buffer,         \* r -> var buffer bytes.Buffer
    completedParts, \* r -> var completedParts []types.CompletedPart
    lastPart,       \* r -> var lastPart bool
    partNumber,     \* r -> var partNumber int32
    offset,         \* r -> bytes of r.Body consumed so far
    inflight,       \* backend calls issued and not yet answered
    uploads,        \* the backend: UploadId -> multipart upload
    headers,        \* r -> the codes passed to w.WriteHeader, in order
    written,        \* r -> the payloads passed to w.Write, in order
    cancelled,      \* r -> the request's context (r.Context()) is cancelled
    history         \* every read and every backend call/answer, in order

vars == <<request, pc, upload, buffer, completedParts, lastPart, partNumber,
          offset, inflight, uploads, headers, written, cancelled, history>>

----------------------------------------------------------------------------
(* Bounds of the model.                                                    *)

\* Bytes per chunk in the model; stands for the 5 MiB of minUploadPartSize.
ChunkBytes == 2

\* Largest declared length the model's handler accepts; stands for 2500 MiB.
MaxDeclaredBytes == 4

\* Number of request slots; Spec runs one request, SpecConcurrent two.
MaxRequests == 2

minUploadPartSize == ChunkBytes

maxContentSize == MaxDeclaredBytes

\* Bodies are up to one byte longer than the largest accepted length.
MaxBodyLen == maxContentSize + 1

Bytes == {0, 1}

Requests == 1 .. MaxRequests

----------------------------------------------------------------------------
(* Strings are sequences of characters, so that prefix and suffix tests    *)
(* are computed.                                                           *)

HasPrefix(s, prefix) ==
    /\ Len(s) >= Len(prefix)
    /\ SubSeq(s, 1, Len(prefix)) = prefix

HasSuffix(s, suffix) ==
    /\ Len(s) >= Len(suffix)
    /\ SubSeq(s, Len(s) - Len(suffix) + 1, Len(s)) = suffix

ImagePrefix == <<"i","m","a","g","e","/">>
VideoPrefix == <<"v","i","d","e","o","/">>

ImageGif       == ImagePrefix \o <<"g","i","f">>
ImageJpeg      == ImagePrefix \o <<"j","p","e","g">>
ImagePng       == ImagePrefix \o <<"p","n","g">>
ImageTiff      == ImagePrefix \o <<"t","i","f","f">>
VideoQuicktime == VideoPrefix \o <<"q","u","i","c","k","t","i","m","e">>
VideoMpeg      == VideoPrefix \o <<"m","p","e","g">>
VideoMp4       == VideoPrefix \o <<"m","p","4">>
VideoMp4Space  == VideoPrefix \o <<"m","p","4"," ">>
VideoWebm      == VideoPrefix \o <<"w","e","b","m">>
ImageBmp       == ImagePrefix \o <<"b","m","p">>
TextPlain      == <<"t","e","x","t","/","p","l","a","i","n">>
ImageNoSlash   == <<"i","m","a","g","e">>
NoContentType  == <<>>

\* The anonymous function filenameExtension of FileHandler.
filenameExtension(contentType) ==
    CASE contentType = ImageGif       -> <<".","g","i","f">>
      [] contentType = ImageJpeg      -> <<".","j","p","e","g">>
      [] contentType = ImagePng       -> <<".","p","n","g">>
      [] contentType = ImageTiff      -> <<".","t","i","f","f">>
      [] contentType = VideoQuicktime -> <<".","m","o","v">>
      [] contentType = VideoMpeg      -> <<".","m","p","e","g">>
      [] contentType = VideoMp4Space  -> <<".","m","p","4">>
      [] contentType = VideoWebm      -> <<".","w","e","b","m">>
      [] OTHER                        -> <<>>

\* Content types the requests of the model carry: accepted and mapped,
\* accepted and unmapped, and rejected (wrong prefix, no slash, absent).
ContentTypes ==
    {ImagePng, VideoMp4, ImageBmp, TextPlain, ImageNoSlash, NoContentType}

Methods == {"POST", "GET", "PUT"}

\* uuid.New().String(): a fresh identifier per call, here one per request.
NewUUID(r) == <<"u", "u", "i", "d", "-">> \o <<<<"1", "2", "3", "4">>[r]>>

bucket == <<"b","u","c","k","e","t">>

----------------------------------------------------------------------------
(* HTTP status codes (net/http).                                           *)

StatusCreated == 201
StatusMethodNotAllowed == 405
StatusRequestEntityTooLarge == 413
StatusUnsupportedMediaType == 415
StatusInternalServerError == 500

----------------------------------------------------------------------------
(* The request body as the handler reads it.                               *)

SeqsUpTo(S, n) == UNION {[1 .. k -> S] : k \in 0 .. n}

NoError == 0 - 1

\* A request: body is what the client sends, errAt the number of bytes
\* the connection delivers before a read fails (NoError: it never fails).
\* r.ContentLength is the body's length, or -1 when it is not declared
\* (chunked transfer); only an undeclared body can fail after its last byte.
RequestInputs ==
    {q \in [method : Methods, contentType : ContentTypes,
            contentLength : -1 .. MaxBodyLen,
            body : SeqsUpTo(Bytes, MaxBodyLen),
            errAt : NoError .. MaxBodyLen] :
        /\ q.contentLength \in {-1, Len(q.body)}
        /\ q.errAt <= Len(q.body)
        /\ q.contentLength # -1 => q.errAt < Len(q.body)}

Min(a, b) == IF a <= b THEN a ELSE b

\* io.CopyN(&buffer, r.Body, n) with the body at offset off: the bytes
\* copied and the error returned.  written = n gives a nil error; fewer
\* bytes give io.EOF at the clean end of the body and the read error
\* otherwise.
CopyN(q, off, n) ==
    LET end   == IF q.errAt = NoError THEN Len(q.body) ELSE q.errAt
        count == Min(end - off, n)
    IN  [n    |-> count,
         data |-> SubSeq(q.body, off + 1, off + count),
         err  |-> IF count = n THEN "nil"
                  ELSE IF q.errAt = NoError THEN "EOF" ELSE "ERR"]

----------------------------------------------------------------------------
(* The conditions of FileHandler.                                          *)

isPost_Mutant(method) == TRUE

\* Line 40: case http.MethodPost.
isPost(method) == method = "POST"

validContentType_Mutant(contentType) ==
    \/ HasPrefix(contentType, <<"i","m","a","g","e">>)
    \/ HasPrefix(contentType, <<"v","i","d","e","o">>)

\* Line 44: the content type begins with image/ or video/.
validContentType(contentType) ==
    HasPrefix(contentType, ImagePrefix) \/ HasPrefix(contentType, VideoPrefix)

tooLarge_Mutant(contentLength) == contentLength > maxContentSize + 1

\* Line 48: r.ContentLength > maxContentSize.
tooLarge(contentLength) == contentLength > maxContentSize

\* Line 118: n == 0 || err == io.EOF.
isLastPart(c) == c.n = 0 \/ c.err = "EOF"

readFailed_Mutant(c) == FALSE

\* Line 120: else if err != nil.
readFailed(c) == ~isLastPart(c) /\ c.err # "nil"

initiateFailed_Mutant(err) == FALSE

\* Line 106: if err != nil, after CreateMultipartUpload.
initiateFailed(err) == err # "nil"

uploadPartFailed_Mutant(err) == FALSE

\* Line 141: if err != nil, after UploadPart.
uploadPartFailed(err) == err # "nil"

completeFailed_Mutant(err) == FALSE

\* Line 165: if err != nil, after CompleteMultipartUpload.
completeFailed(err) == err # "nil"

\* Line 77: the key of the object.
objectKey(r, contentType) == NewUUID(r) \o filenameExtension(contentType)

----------------------------------------------------------------------------
(* The backend (S3), as the three calls the handler makes see it.          *)

NoUpload == [Key |-> <<>>, UploadId |-> 0]

\* What a backend call returns besides its output: nil or an error.
Errors == {"nil", "ERR"}

NoETag == [md5 |-> <<"none">>]

\* The integrity token of a part: determined by the part's bytes.
ETagOf(body) == [md5 |-> body]

Location(key) == [bucket |-> bucket, key |-> key]

RECURSIVE ConcatParts(_, _)
\* The object a completed upload holds: the bodies of the listed parts,
\* in the order listed.
ConcatParts(u, parts) ==
    IF parts = <<>> THEN <<>>
    ELSE u.Parts[Head(parts).PartNumber].Body \o ConcatParts(u, Tail(parts))

\* CompleteMultipartUpload succeeds only on a non-empty list of uploaded
\* parts, in ascending order, each with the ETag the backend gave it.
validParts(id, parts) ==
    /\ id \in DOMAIN uploads
    /\ parts # <<>>
    /\ LET u == uploads[id] IN
       \A i \in 1 .. Len(parts) :
          /\ parts[i].PartNumber \in DOMAIN u.Parts
          /\ u.Parts[parts[i].PartNumber].ETag = parts[i].ETag
    /\ \A i \in 1 .. Len(parts) - 1 :
          parts[i].PartNumber < parts[i + 1].PartNumber

----------------------------------------------------------------------------
(* Bookkeeping shared by the actions.                                      *)

Event(r, kind, op, arg) == [r |-> r, kind |-> kind, op |-> op, arg |-> arg]

Call(r, op, arg) == [r |-> r, op |-> op, arg |-> arg]

\* w.WriteHeader(code).
WriteHeader(r, code) == headers' = [headers EXCEPT ![r] = Append(@, code)]

Locals == <<upload, buffer, completedParts, lastPart, partNumber, offset>>

\* What a package-level multipartUploadOutput would hold: the output of
\* the latest successful CreateMultipartUpload of any request.
uploadOf_Mutant(r) ==
    LET oks == SelectSeq(history, LAMBDA e :
                   e.kind = "ok" /\ e.op = "CreateMultipartUpload")
    IN  IF oks = <<>> THEN NoUpload ELSE oks[Len(oks)].arg

ctxDone_Mutant(r) == FALSE

\* Lines 74, 75, 127, 154: ctx := r.Context(), the context given to every
\* client call; a call under a cancelled context returns an error.
ctxDone(r) == cancelled[r]

\* Lines 75, 128-131, 156-158: multipartUploadOutput, a variable of the
\* handler's own run.
uploadOf(r) == upload[r]

----------------------------------------------------------------------------
\* The inputs of a request slot that receives no request.
NoRequest ==
    [method |-> "GET", contentType |-> NoContentType, contentLength |-> 0,
     body |-> <<>>, errAt |-> NoError]

\* The state when the requests of the slots in active, drawn from inputs,
\* have arrived and their handlers have not yet run.
InitOf(active, inputs) ==
    /\ \E f \in [active -> inputs] :
          request = [r \in Requests |-> IF r \in active THEN f[r]
                                        ELSE NoRequest]
    /\ pc = [r \in Requests |-> IF r \in active THEN "start" ELSE "absent"]
    /\ upload = [r \in Requests |-> NoUpload]
    /\ buffer = [r \in Requests |-> <<>>]
    /\ completedParts = [r \in Requests |-> <<>>]
    /\ lastPart = [r \in Requests |-> FALSE]
    /\ partNumber = [r \in Requests |-> 1]
    /\ offset = [r \in Requests |-> 0]
    /\ inflight = {}
    /\ uploads = <<>>
    /\ headers = [r \in Requests |-> <<>>]
    /\ written = [r \in Requests |-> <<>>]
    /\ cancelled = [r \in Requests |-> FALSE]
    /\ history = <<>>

InitWith(active) == InitOf(active, RequestInputs)

Init == InitWith({1})

\* Lines 38-105, 190-193: method dispatch, validation, and the call of
\* CreateMultipartUpload.
Validate(r) ==
    /\ pc[r] = "start"
    /\ LET q == request[r] IN
       IF ~isPost(q.method) THEN
          /\ WriteHeader(r, StatusMethodNotAllowed)
          /\ pc' = [pc EXCEPT ![r] = "done"]
          /\ UNCHANGED <<inflight, history>>
       ELSE IF ~validContentType(q.contentType) THEN
          /\ WriteHeader(r, StatusUnsupportedMediaType)
          /\ pc' = [pc EXCEPT ![r] = "done"]
          /\ UNCHANGED <<inflight, history>>
       ELSE IF tooLarge(q.contentLength) THEN
          /\ WriteHeader(r, StatusRequestEntityTooLarge)
          /\ pc' = [pc EXCEPT ![r] = "done"]
          /\ UNCHANGED <<inflight, history>>
       ELSE
          LET arg == [Key |-> objectKey(r, q.contentType),
                      ContentType |-> q.contentType] IN
          /\ inflight' = inflight \cup {Call(r, "CreateMultipartUpload", arg)}
          /\ history' = Append(history,
                               Event(r, "call", "CreateMultipartUpload", arg))
          /\ pc' = [pc EXCEPT ![r] = "CreateMultipartUpload"]
          /\ UNCHANGED headers
    /\ UNCHANGED <<request, cancelled, Locals, uploads, written>>

\* Lines 75-114: the backend answers CreateMultipartUpload; on an error the
\* handler writes 500, otherwise it declares the loop's variables.
CreateMultipartUploadReturn(r) ==
    /\ pc[r] = "CreateMultipartUpload"
    /\ \E c \in inflight :
       \E err \in IF ctxDone(r) THEN {"ERR"} ELSE Errors :
          LET id  == Len(uploads) + 1
              out == IF err = "nil"
                     THEN [Key |-> c.arg.Key, UploadId |-> id]
                     ELSE NoUpload
          IN
          /\ c.r = r /\ c.op = "CreateMultipartUpload"
          /\ inflight' = inflight \ {c}
          /\ uploads' = IF err = "nil"
                        THEN Append(uploads,
                                [Key |-> c.arg.Key,
                                 ContentType |-> c.arg.ContentType,
                                 Parts |-> <<>>, Completed |-> FALSE,
                                 Object |-> <<>>])
                        ELSE uploads
          /\ history' = Append(history,
                Event(r, IF err = "nil" THEN "ok" ELSE "err",
                      "CreateMultipartUpload", out))
          /\ IF initiateFailed(err) THEN
                /\ WriteHeader(r, StatusInternalServerError)
                /\ pc' = [pc EXCEPT ![r] = "done"]
                /\ UNCHANGED <<upload, buffer, completedParts, lastPart,
                               partNumber>>
             ELSE
                /\ upload' = [upload EXCEPT ![r] = out]
                /\ buffer' = [buffer EXCEPT ![r] = <<>>]
                /\ completedParts' = [completedParts EXCEPT ![r] = <<>>]
                /\ lastPart' = [lastPart EXCEPT ![r] = FALSE]
                /\ partNumber' = [partNumber EXCEPT ![r] = 1]
                /\ pc' = [pc EXCEPT ![r] = "loop"]
                /\ UNCHANGED headers
    /\ UNCHANGED <<request, cancelled, offset, written>>

\* Lines 115-140: one turn of the loop up to its backend call: io.CopyN
\* into the buffer, the test for the last part and for a read error, and
\* the call of UploadPart with the buffer's bytes.
ReadChunk(r) ==
    /\ pc[r] = "loop"
    /\ ~lastPart[r]
    /\ LET c   == CopyN(request[r], offset[r], minUploadPartSize)
           buf == buffer[r] \o c.data
           arg == [Key |-> uploadOf(r).Key, UploadId |-> uploadOf(r).UploadId,
                   PartNumber |-> partNumber[r], Body |-> buf,
                   ContentLength |-> Len(buf)]
           rd  == Event(r, "read", "CopyN", [n |-> c.n, err |-> c.err])
       IN
       /\ buffer' = [buffer EXCEPT ![r] = buf]
       /\ offset' = [offset EXCEPT ![r] = @ + c.n]
       /\ lastPart' = [lastPart EXCEPT ![r] = isLastPart(c)]
       /\ IF readFailed(c) THEN
             /\ history' = Append(history, rd)
             /\ WriteHeader(r, StatusInternalServerError)
             /\ pc' = [pc EXCEPT ![r] = "done"]
             /\ UNCHANGED inflight
          ELSE
             /\ history' = history \o <<rd, Event(r, "call", "UploadPart", arg)>>
             /\ inflight' = inflight \cup {Call(r, "UploadPart", arg)}
             /\ pc' = [pc EXCEPT ![r] = "UploadPart"]
             /\ UNCHANGED headers
    /\ UNCHANGED <<request, cancelled, upload, completedParts, partNumber, uploads,
                   written>>

Reset_Mutant(buf) == buf

\* Line 151: buffer.Reset().
Reset(buf) == <<>>

completedPart_Mutant(etag, n) == [ETag |-> NoETag, PartNumber |-> n]

\* Lines 146-149: types.CompletedPart{ETag: uploadPartOutput.ETag,
\* PartNumber: partNumber}.
completedPart(etag, n) == [ETag |-> etag, PartNumber |-> n]

nextPartNumber_Mutant(n) == n

\* Line 152: partNumber++.
nextPartNumber(n) == n + 1

\* Lines 127-164: the backend answers UploadPart; on an error the handler
\* writes 500, otherwise it records the part, resets the buffer, counts
\* the part and, leaving the loop after the last part, calls
\* CompleteMultipartUpload.  The backend refuses a part of an upload it
\* does not know.
UploadPartReturn(r) ==
    /\ pc[r] = "UploadPart"
    /\ \E c \in {x \in inflight : x.r = r /\ x.op = "UploadPart"} :
       \E err \in IF c.arg.UploadId \in DOMAIN uploads /\ ~ctxDone(r)
                  THEN Errors ELSE {"ERR"} :
          LET etag  == IF err = "nil" THEN ETagOf(c.arg.Body) ELSE NoETag
              parts == Append(completedParts[r],
                              completedPart(etag, partNumber[r]))
              arg   == [Key |-> uploadOf(r).Key,
                        UploadId |-> uploadOf(r).UploadId,
                        Parts |-> parts]
              ret   == Event(r, IF err = "nil" THEN "ok" ELSE "err",
                             "UploadPart",
                             [PartNumber |-> c.arg.PartNumber, ETag |-> etag])
          IN
          /\ c.r = r /\ c.op = "UploadPart"
          /\ uploads' =
                IF err = "nil"
                THEN LET u == uploads[c.arg.UploadId] IN
                     [uploads EXCEPT ![c.arg.UploadId].Parts =
                        [n \in DOMAIN u.Parts \cup {c.arg.PartNumber} |->
                           IF n = c.arg.PartNumber
                           THEN [ETag |-> etag, Body |-> c.arg.Body]
                           ELSE u.Parts[n]]]
                ELSE uploads
          /\ IF uploadPartFailed(err) THEN
                /\ history' = Append(history, ret)
                /\ inflight' = inflight \ {c}
                /\ WriteHeader(r, StatusInternalServerError)
                /\ pc' = [pc EXCEPT ![r] = "done"]
                /\ UNCHANGED <<completedParts, buffer, partNumber>>
             ELSE
                /\ completedParts' = [completedParts EXCEPT ![r] = parts]
                /\ buffer' = [buffer EXCEPT ![r] = Reset(@)]
                /\ partNumber' = [partNumber EXCEPT ![r] = nextPartNumber(@)]
                /\ IF lastPart[r] THEN
                      /\ history' = history \o
                            <<ret,
                              Event(r, "call", "CompleteMultipartUpload", arg)>>
                      /\ inflight' = (inflight \ {c}) \cup
                            {Call(r, "CompleteMultipartUpload", arg)}
                      /\ pc' = [pc EXCEPT ![r] = "CompleteMultipartUpload"]
                   ELSE
                      /\ history' = Append(history, ret)
                      /\ inflight' = inflight \ {c}
                      /\ pc' = [pc EXCEPT ![r] = "loop"]
                /\ UNCHANGED headers
    /\ UNCHANGED <<request, cancelled, upload, lastPart, offset, written>>

\* json.Marshal(Message{Key, Links}): the payload of the response.
Marshal(key, location) ==
    [json |-> [key |-> key, links |-> <<[url |-> location]>>]]

NoOutput == [Key |-> <<>>, Location |-> <<>>]

\* Lines 154-189: the backend answers CompleteMultipartUpload; on an error
\* the handler writes 500, otherwise it marshals the message, writes 201
\* and the payload, and writes 500 when json.Marshal or w.Write fails
\* (after a failed w.Write that is a second WriteHeader, following 201).
\* The backend completes only an upload it knows, from parts it holds.
CompleteMultipartUploadReturn(r) ==
    /\ pc[r] = "CompleteMultipartUpload"
    /\ \E c \in {x \in inflight :
                    x.r = r /\ x.op = "CompleteMultipartUpload"} :
       \E err \in IF validParts(c.arg.UploadId, c.arg.Parts) /\ ~ctxDone(r)
                  THEN Errors ELSE {"ERR"} :
       \E marshalOk \in BOOLEAN : \E writeOk \in BOOLEAN :
          LET out == IF err = "nil"
                     THEN [Key |-> uploads[c.arg.UploadId].Key,
                           Location |-> Location(uploads[c.arg.UploadId].Key)]
                     ELSE NoOutput
              b   == Marshal(out.Key, out.Location)
          IN
          /\ c.r = r /\ c.op = "CompleteMultipartUpload"
          /\ inflight' = inflight \ {c}
          /\ pc' = [pc EXCEPT ![r] = "done"]
          /\ uploads' =
                IF err = "nil"
                THEN [uploads EXCEPT
                        ![c.arg.UploadId].Completed = TRUE,
                        ![c.arg.UploadId].Object =
                            ConcatParts(uploads[c.arg.UploadId], c.arg.Parts)]
                ELSE uploads
          /\ history' = Append(history,
                Event(r, IF err = "nil" THEN "ok" ELSE "err",
                      "CompleteMultipartUpload", out))
          /\ IF completeFailed(err) THEN
                /\ marshalOk /\ writeOk
                /\ WriteHeader(r, StatusInternalServerError)
                /\ UNCHANGED written
             ELSE IF ~marshalOk THEN
                /\ writeOk
                /\ WriteHeader(r, StatusInternalServerError)
                /\ UNCHANGED written
             ELSE IF writeOk THEN
                /\ WriteHeader(r, StatusCreated)
                /\ written' = [written EXCEPT ![r] = Append(@, b)]
             ELSE
                /\ headers' = [headers EXCEPT ![r] =
                      @ \o <<StatusCreated, StatusInternalServerError>>]
                /\ UNCHANGED written
    /\ UNCHANGED <<request, cancelled, Locals>>

Next ==
    \E r \in Requests :
       \/ Validate(r)
       \/ CreateMultipartUploadReturn(r)
       \/ ReadChunk(r)
       \/ UploadPartReturn(r)
       \/ CompleteMultipartUploadReturn(r)

Spec == Init /\ [][Next]_vars

\* The context of request r is cancelled (the client went away) while
\* its handler runs.
Cancel(r) ==
    /\ pc[r] \notin {"absent", "done"}
    /\ ~cancelled[r]
    /\ cancelled' = [cancelled EXCEPT ![r] = TRUE]
    /\ history' = Append(history, Event(r, "cancel", "Context", <<>>))
    /\ UNCHANGED <<request, pc, Locals, inflight, uploads, headers, written>>

NextCancel ==
    \/ Next
    \/ \E r \in Requests : Cancel(r)

\* One request whose context may be cancelled at any point of its run.
SpecCancel == Init /\ [][NextCancel]_vars

\* The steps of the handler of request r.
Handler(r) ==
    \/ Validate(r)
    \/ CreateMultipartUploadReturn(r)
    \/ ReadChunk(r)
    \/ UploadPartReturn(r)
    \/ CompleteMultipartUploadReturn(r)

\* Every body read and every backend call eventually returns, and the
\* handler then runs on.
FairSpec == Spec /\ \A r \in Requests : WF_vars(Handler(r))

\* Two accepted requests of undeclared length, each a body of one full
\* chunk and one more byte, all of one value.
ConcurrentInputs ==
    {q \in RequestInputs :
        /\ q.method = "POST"
        /\ q.contentType = ImagePng
        /\ q.contentLength = -1
        /\ q.errAt = NoError
        /\ Len(q.body) = ChunkBytes + 1
        /\ \A i \in 1 .. Len(q.body) : q.body[i] = q.body[1]}

InitConcurrent == InitOf({1, 2}, ConcurrentInputs)

\* Two requests served at once, each by its own run of FileHandler, their
\* reads and backend calls interleaved in any order.
SpecConcurrent == InitConcurrent /\ [][Next]_vars

----------------------------------------------------------------------------
(* What a request's response and calls are, read from the state.           *)

\* The status the client receives: the first code given to WriteHeader.
Status(r) == IF headers[r] = <<>> THEN 0 ELSE headers[r][1]

Done(r) == pc[r] = "done"

\* The events of request r of one kind and operation, in order.
Events(r, kind, op) ==
    SelectSeq(history, LAMBDA e : e.r = r /\ e.kind = kind /\ e.op = op)

\* Positions in history of the events of request r of a kind and operation.
EventsAt(r, kind, op) ==
    {i \in 1 .. Len(history) :
        history[i].r = r /\ history[i].kind = kind /\ history[i].op = op}

BackendCalls(r) ==
    {i \in 1 .. Len(history) : history[i].r = r /\ history[i].kind = "call"}

\* The backend calls and answers of request r, in order.
Backend(r) ==
    SelectSeq(history, LAMBDA e : e.r = r /\ e.kind \in {"call", "ok", "err"})

Accepted(ct) == HasPrefix(ct, ImagePrefix) \/ HasPrefix(ct, VideoPrefix)

----------------------------------------------------------------------------
\* C1: for an accepted POST request with a body of n bytes and no failed
\* read or backend call, the handler makes ceil(n / chunkSize) UploadPart
\* calls when n > 0 and one zero-length call when n = 0, and the complete
\* call receives that many part records.
C1_PartCount ==
    \A r \in Requests :
       LET n        == Len(request[r].body)
           expected == IF n = 0 THEN 1
                       ELSE (n + ChunkBytes - 1) \div ChunkBytes
           calls    == Events(r, "call", "UploadPart")
           complete == Events(r, "call", "CompleteMultipartUpload")
       IN
       (/\ Events(r, "ok", "CompleteMultipartUpload") # <<>>
        /\ \A i \in EventsAt(r, "read", "CopyN") : history[i].arg.err # "ERR")
       => /\ Len(calls) = expected
          /\ Len(complete[1].arg.Parts) = expected
          /\ n = 0 => calls[1].arg.ContentLength = 0

\* C2: the recorded parts carry the numbers 1, 2, ..., k in that order,
\* one per acknowledged UploadPart call, and the complete call is sent
\* with exactly that sequence.
C2_PartNumbers ==
    \A r \in Requests :
       LET calls == Events(r, "call", "UploadPart") IN
       /\ \A i \in 1 .. Len(completedParts[r]) :
             completedParts[r][i].PartNumber = i
       /\ \A i \in 1 .. Len(calls) : calls[i].arg.PartNumber = i
       /\ Len(completedParts[r]) = Len(Events(r, "ok", "UploadPart"))
       /\ \A i \in EventsAt(r, "call", "CompleteMultipartUpload") :
             /\ history[i].arg.Parts = completedParts[r]
             /\ \A k \in 1 .. Len(history[i].arg.Parts) :
                   history[i].arg.Parts[k].PartNumber = k

\* A complete call has been sent with three part records.
C2_Witness ==
    \E r \in Requests : \E i \in EventsAt(r, "call", "CompleteMultipartUpload") :
       Len(history[i].arg.Parts) = 3

\* C3: once an UploadPart call has failed, at whatever part, no complete
\* call is made for the session and the response status is 500.
C3_UploadPartFailure ==
    \A r \in Requests :
       Events(r, "err", "UploadPart") # <<>>
       => /\ Events(r, "call", "CompleteMultipartUpload") = <<>>
          /\ Done(r)
          /\ Status(r) = StatusInternalServerError

\* The UploadPart call of the last part, part 2, has failed.
C3_Witness ==
    \E r \in Requests : \E i \in EventsAt(r, "err", "UploadPart") :
       history[i].arg.PartNumber = 2 /\ lastPart[r]

\* C4 as stated: every POST request with a declared length above
\* maxContentSize is answered 413 without a backend call, whatever its
\* other headers.
C4_Original ==
    \A r \in Requests :
       (/\ request[r].method = "POST"
        /\ request[r].contentLength > maxContentSize
        /\ pc[r] # "start")
       => Status(r) = StatusRequestEntityTooLarge /\ BackendCalls(r) = {}

\* C4 amended: a POST request with a declared length above maxContentSize
\* never reaches the backend; it is answered 413 when its content type
\* begins with image/ or video/, and 415 otherwise.
C4_TooLarge ==
    \A r \in Requests :
       (/\ request[r].method = "POST"
        /\ request[r].contentLength > maxContentSize
        /\ pc[r] # "start")
       => /\ Done(r)
          /\ BackendCalls(r) = {}
          /\ headers[r] = <<IF Accepted(request[r].contentType)
                            THEN StatusRequestEntityTooLarge
                            ELSE StatusUnsupportedMediaType>>

\* An image/png POST declaring more than maxContentSize was answered 413.
C4_Witness ==
    \E r \in Requests :
       /\ Done(r)
       /\ request[r].method = "POST"
       /\ request[r].contentType = ImagePng
       /\ request[r].contentLength = maxContentSize + 1
       /\ Status(r) = StatusRequestEntityTooLarge

\* C5: a POST request whose content type does not begin with image/ or
\* video/, an absent one included, is answered 415 without any backend
\* call.
C5_UnsupportedMediaType ==
    \A r \in Requests :
       (/\ request[r].method = "POST"
        /\ ~Accepted(request[r].contentType)
        /\ pc[r] # "start")
       => /\ Done(r)
          /\ headers[r] = <<StatusUnsupportedMediaType>>
          /\ BackendCalls(r) = {}
          /\ uploads = <<>>

\* A POST without Content-Type was answered 415.
C5_Witness ==
    \E r \in Requests :
       /\ Done(r)
       /\ request[r].method = "POST"
       /\ request[r].contentType = NoContentType
       /\ Status(r) = StatusUnsupportedMediaType

\* C6: a request whose method is not POST is answered 405 without any
\* backend call, whatever its content type and declared length.
C6_MethodNotAllowed ==
    \A r \in Requests :
       (request[r].method # "POST" /\ pc[r] \notin {"start", "absent"})
       => /\ Done(r)
          /\ headers[r] = <<StatusMethodNotAllowed>>
          /\ BackendCalls(r) = {}
          /\ uploads = <<>>

\* A GET that a POST handler would accept (image/png, small declared
\* length) was answered 405.
C6_Witness ==
    \E r \in Requests :
       /\ Done(r)
       /\ request[r].method = "GET"
       /\ request[r].contentType = ImagePng
       /\ request[r].contentLength \in 0 .. maxContentSize
       /\ Status(r) = StatusMethodNotAllowed

\* C7: the key and the URL are written, with status 201, only after the
\* complete call has succeeded; a request that reached the backend and ends
\* without a successful complete call is answered 500 with nothing
\* written to the body.
C7_ReferenceOnlyAfterComplete ==
    \A r \in Requests :
       LET completed == Events(r, "ok", "CompleteMultipartUpload") IN
       /\ (written[r] # <<>> \/ Status(r) = StatusCreated) => completed # <<>>
       /\ written[r] # <<>> =>
             /\ Status(r) = StatusCreated
             /\ Len(written[r]) = 1
             /\ written[r][1].json.key = completed[1].arg.Key
             /\ written[r][1].json.links = <<[url |-> completed[1].arg.Location]>>
       /\ (/\ Done(r)
           /\ Events(r, "call", "CreateMultipartUpload") # <<>>
           /\ completed = <<>>)
          => Status(r) = StatusInternalServerError /\ written[r] = <<>>

\* The complete call of a session with two uploaded parts has failed and
\* the request has ended.
C7_Witness ==
    \E r \in Requests :
       /\ Done(r)
       /\ Events(r, "err", "CompleteMultipartUpload") # <<>>
       /\ Len(completedParts[r]) = 2

\* C8: every body read that returns an error other than io.EOF fails the
\* session (500, no later UploadPart call, no complete call), also when
\* the read delivered no byte.
C8_ReadErrorFails ==
    \A r \in Requests : \A i \in EventsAt(r, "read", "CopyN") :
       history[i].arg.err = "ERR"
       => /\ Status(r) = StatusInternalServerError
          /\ \A j \in BackendCalls(r) : j < i

RECURSIVE Concat(_)
Concat(seqs) == IF seqs = <<>> THEN <<>> ELSE Head(seqs) \o Concat(Tail(seqs))

\* The bodies of the UploadPart calls of request r, in part-number order.
PartBodies(r) ==
    LET calls == Events(r, "call", "UploadPart") IN
    [i \in 1 .. Len(calls) |-> calls[i].arg.Body]

\* C9: whenever the response is 201, the bodies of the uploaded parts,
\* concatenated in part-number order, are the request body byte for byte,
\* and so is the object the backend holds.
C9_ObjectEqualsBody ==
    \A r \in Requests :
       Status(r) = StatusCreated
       => /\ Concat(PartBodies(r)) = request[r].body
          /\ uploads[upload[r].UploadId].Object = request[r].body

\* C10: the backend calls of a session are strictly sequential: a call is
\* issued only when the previous one has been answered, the first call is
\* the initiate, the UploadPart call of part N + 1 follows the successful
\* answer to part N, and the complete call follows the successful answer
\* to the last of the session's UploadPart calls.
C10_Sequential ==
    \A r \in Requests :
       LET B == Backend(r) IN
       /\ Cardinality({c \in inflight : c.r = r}) = Len(B) % 2
       /\ \A i \in 1 .. Len(B) :
             IF i % 2 = 1
             THEN /\ B[i].kind = "call"
                  /\ i = 1 => B[i].op = "CreateMultipartUpload"
                  /\ i > 1 => /\ B[i - 1].kind = "ok"
                              /\ B[i].op # "CreateMultipartUpload"
                  /\ B[i].op = "UploadPart" =>
                        \/ /\ B[i].arg.PartNumber = 1
                           /\ B[i - 1].op = "CreateMultipartUpload"
                        \/ /\ B[i - 1].op = "UploadPart"
                           /\ B[i - 1].arg.PartNumber + 1 = B[i].arg.PartNumber
                  /\ B[i].op = "CompleteMultipartUpload" =>
                        /\ B[i - 1].op = "UploadPart"
                        /\ i = Len(B) \/ i + 1 = Len(B)
             ELSE /\ B[i].kind \in {"ok", "err"}
                  /\ B[i].op = B[i - 1].op

\* The UploadPart call of part 3 is in flight, after parts 1 and 2 were
\* acknowledged.
C10_Witness ==
    \E r \in Requests : \E c \in inflight :
       /\ c.r = r
       /\ c.op = "UploadPart"
       /\ c.arg.PartNumber = 3
       /\ Len(completedParts[r]) = 2

\* C11: every part record of the complete call is a part of the same
\* session whose UploadPart call the backend acknowledged, with the ETag
\* the backend returned for that part number and holds for it; no record
\* is sent for a part whose upload failed or was never issued.
C11_PartsAcknowledged ==
    \A r \in Requests : \A i \in EventsAt(r, "call", "CompleteMultipartUpload") :
       LET c == history[i].arg IN
       \A k \in 1 .. Len(c.Parts) :
          /\ \E j \in EventsAt(r, "ok", "UploadPart") :
                /\ j < i
                /\ history[j].arg.PartNumber = c.Parts[k].PartNumber
                /\ history[j].arg.ETag = c.Parts[k].ETag
          /\ \A j \in EventsAt(r, "err", "UploadPart") :
                history[j].arg.PartNumber # c.Parts[k].PartNumber
          /\ c.UploadId = upload[r].UploadId
          /\ c.Parts[k].PartNumber \in DOMAIN uploads[c.UploadId].Parts
          /\ uploads[c.UploadId].Parts[c.Parts[k].PartNumber].ETag
                = c.Parts[k].ETag

\* A complete call has been sent with the records of two parts of
\* different bytes, so of different ETags.
C11_Witness ==
    \E r \in Requests : \E i \in EventsAt(r, "call", "CompleteMultipartUpload") :
       /\ Len(history[i].arg.Parts) = 2
       /\ history[i].arg.Parts[1].ETag # history[i].arg.Parts[2].ETag

\* The positions in history at which request r met a failure: a backend
\* call answered with an error, or a body read that returned an error
\* other than io.EOF.
Failures(r) ==
    {i \in 1 .. Len(history) :
        /\ history[i].r = r
        /\ \/ history[i].kind = "err"
           \/ history[i].kind = "read" /\ history[i].arg.err = "ERR"}

\* C12: the first failure of a session is terminal: after a failed
\* initiate, body read, UploadPart or complete call the handler issues no
\* further backend call, so no part number is uploaded twice and a failed
\* session is never completed (nor aborted).
C12_FirstFailureTerminal ==
    \A r \in Requests :
       LET calls == Events(r, "call", "UploadPart") IN
       /\ \A i \in Failures(r) : \A j \in BackendCalls(r) : j < i
       /\ \A a, b \in 1 .. Len(calls) :
             calls[a].arg.PartNumber = calls[b].arg.PartNumber => a = b
       /\ (Failures(r) # {} /\ upload[r].UploadId \in DOMAIN uploads)
          => ~uploads[upload[r].UploadId].Completed

\* C13: the chunk buffer never holds more than chunkSize bytes and is
\* empty at the start of every loop iteration, so each uploaded part is
\* exactly the bytes read in its own iteration.
C13_BufferBounded ==
    \A r \in Requests :
       /\ Len(buffer[r]) <= ChunkBytes
       /\ pc[r] = "loop" => buffer[r] = <<>>
       /\ \A i \in EventsAt(r, "call", "UploadPart") :
             /\ history[i - 1].r = r
             /\ history[i - 1].kind = "read"
             /\ Len(history[i].arg.Body) = history[i - 1].arg.n
             /\ history[i].arg.ContentLength = history[i - 1].arg.n
             /\ history[i].arg.Body =
                   SubSeq(request[r].body,
                          (history[i].arg.PartNumber - 1) * ChunkBytes + 1,
                          (history[i].arg.PartNumber - 1) * ChunkBytes
                             + history[i - 1].arg.n)

\* The loop is about to read the third chunk of a body longer than two
\* chunks, with an empty buffer.
C13_Witness ==
    \E r \in Requests :
       /\ pc[r] = "loop"
       /\ partNumber[r] = 3
       /\ Len(request[r].body) > 2 * ChunkBytes
       /\ buffer[r] = <<>>

\* C14: every uploaded part but the last holds exactly chunkSize bytes;
\* only the part of the final loop iteration may be shorter, and once a
\* part is marked last no further chunk is read or uploaded.
C14_OnlyLastPartShort ==
    \A r \in Requests :
       LET calls == Events(r, "call", "UploadPart") IN
       /\ \A k \in 1 .. Len(calls) - 1 : Len(calls[k].arg.Body) = ChunkBytes
       /\ \A k \in 1 .. Len(calls) : Len(calls[k].arg.Body) <= ChunkBytes
       /\ lastPart[r] => pc[r] # "loop"
       /\ \A i \in EventsAt(r, "read", "CopyN") :
             (history[i].arg.n = 0 \/ history[i].arg.err = "EOF")
             => /\ lastPart[r]
                /\ \A j \in EventsAt(r, "read", "CopyN") : j <= i
                /\ \A j \in EventsAt(r, "call", "UploadPart") : j <= i + 1

\* Three parts were uploaded and acknowledged, the last one shorter than
\* a chunk and not empty.
C14_Witness ==
    \E r \in Requests :
       LET calls == Events(r, "call", "UploadPart") IN
       /\ Len(calls) = 3
       /\ Len(completedParts[r]) = 3
       /\ Len(calls[3].arg.Body) \in 1 .. ChunkBytes - 1

\* C15: with requests served concurrently under any interleaving, each
\* session's part counter, buffer and part records are private: every
\* UploadPart and complete call of a request carries the key and the
\* UploadId its own initiate call returned, its parts are numbered 1, 2,
\* ... and hold its own body's bytes, and its complete call lists only
\* records of parts its own UploadPart calls had acknowledged.
C15_SessionsPrivate ==
    \A r \in Requests :
       LET init  == Events(r, "ok", "CreateMultipartUpload")
           calls == Events(r, "call", "UploadPart")
       IN
       /\ \A i \in BackendCalls(r) :
             history[i].op # "CreateMultipartUpload"
             => /\ init # <<>>
                /\ history[i].arg.UploadId = init[1].arg.UploadId
                /\ history[i].arg.Key = init[1].arg.Key
       /\ \A q \in Requests \ {r} :
             (init # <<>> /\ Events(q, "ok", "CreateMultipartUpload") # <<>>)
             => /\ init[1].arg.UploadId
                      # Events(q, "ok", "CreateMultipartUpload")[1].arg.UploadId
                /\ init[1].arg.Key
                      # Events(q, "ok", "CreateMultipartUpload")[1].arg.Key
       /\ \A k \in 1 .. Len(calls) :
             /\ calls[k].arg.PartNumber = k
             /\ calls[k].arg.Body =
                   SubSeq(request[r].body, (k - 1) * ChunkBytes + 1,
                          Min(k * ChunkBytes, Len(request[r].body)))
       /\ \A i \in EventsAt(r, "call", "CompleteMultipartUpload") :
             /\ history[i].arg.Parts = completedParts[r]
             /\ \A k \in 1 .. Len(history[i].arg.Parts) :
                   \E j \in EventsAt(r, "ok", "UploadPart") :
                      /\ j < i
                      /\ history[j].arg.PartNumber
                            = history[i].arg.Parts[k].PartNumber
                      /\ history[j].arg.ETag = history[i].arg.Parts[k].ETag
       /\ (init # <<>> /\ uploads[init[1].arg.UploadId].Completed)
          => uploads[init[1].arg.UploadId].Object = request[r].body

\* Two requests with different bodies are both completed, the second
\* having initiated and uploaded its first part between the first one's
\* initiate and complete calls.
C15_Witness ==
    /\ request[1].body # request[2].body
    /\ \A r \in {1, 2} : Events(r, "ok", "CompleteMultipartUpload") # <<>>
    /\ \E a \in EventsAt(1, "ok", "CreateMultipartUpload") :
       \E b \in EventsAt(2, "ok", "UploadPart") :
       \E c \in EventsAt(1, "call", "CompleteMultipartUpload") :
          a < b /\ b < c

\* C16: when every body read and every backend call eventually returns,
\* the handler of a request eventually ends with a response status, 201
\* or a 4xx/500, after at most floor(n / chunkSize) + 1 loop iterations.
C16_Terminates ==
    /\ \A r \in Requests : <>(pc[r] \in {"done", "absent"})
    /\ [](\A r \in Requests :
             /\ Len(Events(r, "read", "CopyN"))
                   <= Len(request[r].body) \div ChunkBytes + 1
             /\ Done(r) => Status(r) \in
                   {StatusCreated, StatusMethodNotAllowed,
                    StatusRequestEntityTooLarge, StatusUnsupportedMediaType,
                    StatusInternalServerError})

\* A body of two full chunks was uploaded in three loop iterations and
\* the request ended with 201.
C16_Witness ==
    \E r \in Requests :
       /\ Done(r)
       /\ Status(r) = StatusCreated
       /\ Len(request[r].body) = 2 * ChunkBytes
       /\ Len(Events(r, "read", "CopyN")) = 3

\* The extension table of the specification: media type -> suffix.
ExtensionTable ==
    {<<ImageGif,       <<".","g","i","f">> >>,
     <<ImageJpeg,      <<".","j","p","e","g">> >>,
     <<ImagePng,       <<".","p","n","g">> >>,
     <<ImageTiff,      <<".","t","i","f","f">> >>,
     <<VideoQuicktime, <<".","m","o","v">> >>,
     <<VideoMpeg,      <<".","m","p","e","g">> >>,
     <<VideoMp4,       <<".","m","p","4">> >>,
     <<VideoWebm,      <<".","w","e","b","m">> >>}

\* C17: for each of the eight media types of the extension table the
\* object key ends with that type's extension; every other accepted
\* content type gets no suffix, and its upload still proceeds.
C17_KeySuffix ==
    \A r \in Requests : \A i \in EventsAt(r, "call", "CreateMultipartUpload") :
       LET ct  == request[r].contentType
           key == history[i].arg.Key
       IN
       /\ \A e \in ExtensionTable :
             ct = e[1] => key = NewUUID(r) \o e[2] /\ HasSuffix(key, e[2])
       /\ (\A e \in ExtensionTable : ct # e[1]) => key = NewUUID(r)

\* The answers of the backend to request r, as positions in history.
BackendAnswers(r) ==
    {i \in 1 .. Len(history) :
        history[i].r = r /\ history[i].kind \in {"ok", "err"}}

C19_StatusWrittenOnce ==
    \A r \in Requests :
       /\ Len(headers[r]) <= 1
       /\ Done(r) => Len(headers[r]) = 1

====
